---- MODULE Spec2Model ----
(***************************************************************************)
(* String Analyzer REST API (victorion0/string-analyzer-api).              *)
(*                                                                         *)
(* The repository holds the same Express application in two near-identical *)
(* files, src/server.js and src/unnamed/part_000.  Both keep one global    *)
(* array, stringDatabase, and register the same five routes in the same    *)
(* order; they differ in the validation done inside the handlers.  The     *)
(* variable `file` says which of the two is running.                       *)
(*                                                                         *)
(* Text is a sequence of one-character strings, so that toLowerCase,       *)
(* trim, includes, replace, split, match and parseInt are computed         *)
(* character by character as the JavaScript library computes them.         *)
(***************************************************************************)
EXTENDS Integers, Sequences, FiniteSets, TLC

(***************************************************************************)
(* Bounds of the model.                                                    *)
(***************************************************************************)
\* the largest number of records the store is allowed to reach
MaxStore == 2
\* the clock read by `new Date()` stops advancing here
MaxClock == 1

(***************************************************************************)
(* Characters and the JavaScript string library.                           *)
(***************************************************************************)
\* the printable ASCII characters, code 32 first (code 96, the grave accent,
\* is written "grave")
Ascii == <<" ","!","\"","#","$","%","&","'","(",")","*","+",",","-",".","/","0","1","2","3","4","5","6","7","8","9",":",";","<","=",">","?","@","A","B","C","D","E","F","G","H","I","J","K","L","M","N","O","P","Q","R","S","T","U","V","W","X","Y","Z","[","\\","]","^","_","grave","a","b","c","d","e","f","g","h","i","j","k","l","m","n","o","p","q","r","s","t","u","v","w","x","y","z","{","|","}","~">>

\* the table of character codes, with the tab and the line feed
CharCodes ==
  [c \in {Ascii[i] : i \in 1..Len(Ascii)} \cup {"\t", "\n"} |->
     IF c = "\t" THEN 9
     ELSE IF c = "\n" THEN 10
     ELSE 31 + (CHOOSE i \in 1..Len(Ascii) : Ascii[i] = c)]

CharCode(c) == CharCodes[c]

FromCharCode(n) == Ascii[n - 31]

IsDigit(c) == CharCode(c) \in 48..57

IsLowerLetter(c) == CharCode(c) \in 97..122

IsWhitespace(c) == c \in {" ", "\t", "\n"}

ToLowerChar(c) ==
  IF CharCode(c) \in 65..90 THEN FromCharCode(CharCode(c) + 32) ELSE c

toLowerCase(str) == [i \in 1..Len(str) |-> ToLowerChar(str[i])]

reverse(str) == [i \in 1..Len(str) |-> str[Len(str) + 1 - i]]

trim(str) ==
  LET keep == {i \in 1..Len(str) : ~IsWhitespace(str[i])}
  IN  IF keep = {} THEN <<>>
      ELSE LET lo == CHOOSE i \in keep : \A j \in keep : i <= j
               hi == CHOOSE i \in keep : \A j \in keep : i >= j
           IN  SubSeq(str, lo, hi)

includes(str, sub) ==
  \E i \in 0..(Len(str) - Len(sub)) : SubSeq(str, i + 1, i + Len(sub)) = sub

\* str.match(/(\d+)/): the first maximal run of digits, <<>> when there is none
MatchDigits(str) ==
  LET ds == {i \in 1..Len(str) : IsDigit(str[i])}
  IN  IF ds = {} THEN <<>>
      ELSE LET lo == CHOOSE i \in ds : \A j \in ds : i <= j
               hi == CHOOSE i \in lo..Len(str) :
                        /\ \A j \in lo..i : IsDigit(str[j])
                        /\ (i = Len(str) \/ ~IsDigit(str[i + 1]))
           IN  SubSeq(str, lo, hi)

\* str.match(/[a-z]/): the first lower-case letter, <<>> when there is none
MatchLowerLetter(str) ==
  LET ls == {i \in 1..Len(str) : IsLowerLetter(str[i])}
  IN  IF ls = {} THEN <<>>
      ELSE <<str[CHOOSE i \in ls : \A j \in ls : i <= j]>>

RECURSIVE DecimalValue(_)
DecimalValue(ds) ==
  IF ds = <<>> THEN 0
  ELSE 10 * DecimalValue(SubSeq(ds, 1, Len(ds) - 1)) + (CharCode(ds[Len(ds)]) - 48)

NaN == [nan |-> TRUE, n |-> 0]

\* parseInt(str): leading whitespace is skipped, then an optional sign, then
\* the longest prefix of decimal digits; NaN when that prefix is empty
parseInt(str) ==
  LET keep == {i \in 1..Len(str) : ~IsWhitespace(str[i])}
      lo   == IF keep = {} THEN Len(str) + 1
              ELSE CHOOSE i \in keep : \A j \in keep : i <= j
      t    == SubSeq(str, lo, Len(str))
      neg  == t # <<>> /\ t[1] = "-"
      u    == IF t # <<>> /\ t[1] \in {"-", "+"} THEN Tail(t) ELSE t
      ds   == IF u # <<>> /\ IsDigit(u[1]) THEN MatchDigits(u) ELSE <<>>
  IN  IF ds = <<>> THEN NaN
      ELSE [nan |-> FALSE, n |-> IF neg THEN 0 - DecimalValue(ds) ELSE DecimalValue(ds)]

isNaN(v) == v.nan

HexDigits == <<"0","1","2","3","4","5","6","7","8","9","a","b","c","d","e","f">>

IsHexDigit(c) == IsDigit(c) \/ CharCode(ToLowerChar(c)) \in 97..102

HexValue(c) == IF IsDigit(c) THEN CharCode(c) - 48 ELSE CharCode(ToLowerChar(c)) - 87

\* decodeURIComponent(str): %XX becomes the character with that code; a %
\* that is not followed by two hexadecimal digits throws URIError.  (The
\* two characters after a % are hexadecimal digits or the call throws, so
\* every % of the text starts an escape.)
decodeURIComponent(str) ==
  LET escapes == {i \in 1..Len(str) : str[i] = "%"}
      bad     == {i \in escapes : \/ i + 2 > Len(str)
                                  \/ ~IsHexDigit(str[i + 1])
                                  \/ ~IsHexDigit(str[i + 2])
                                  \/ 16 * HexValue(str[i + 1]) + HexValue(str[i + 2]) \notin 32..126}
      kept    == SelectSeq([i \in 1..Len(str) |-> i],
                           LAMBDA i : (i - 1) \notin escapes /\ (i - 2) \notin escapes)
  IN  IF bad # {} THEN [throws |-> TRUE, s |-> <<>>]
      ELSE [throws |-> FALSE,
            s |-> [k \in 1..Len(kept) |->
                     IF str[kept[k]] = "%"
                       THEN FromCharCode(16 * HexValue(str[kept[k] + 1]) + HexValue(str[kept[k] + 2]))
                       ELSE str[kept[k]]]]

(***************************************************************************)
(* JavaScript values that reach the handlers: a field of the JSON body or  *)
(* a query parameter.                                                      *)
(***************************************************************************)
JsValue(type, text, number, boolean) ==
  [type |-> type, text |-> text, number |-> number, boolean |-> boolean]

Undefined == JsValue("undefined", <<>>, 0, FALSE)
Null      == JsValue("null", <<>>, 0, FALSE)
Object    == JsValue("object", <<>>, 0, FALSE)
Str(text) == JsValue("string", text, 0, FALSE)
Num(n)    == JsValue("number", <<>>, n, FALSE)
Bool(b)   == JsValue("boolean", <<>>, 0, b)

\* !v
Falsy(v) ==
  \/ v.type \in {"undefined", "null"}
  \/ v.type = "boolean" /\ ~v.boolean
  \/ v.type = "number" /\ v.number = 0
  \/ v.type = "string" /\ v.text = <<>>

(***************************************************************************)
(* Helper functions.                                                       *)
(***************************************************************************)
IsAlnum(c) == IsLowerLetter(c) \/ IsDigit(c)

isPalindrome(str) ==
  LET clean == SelectSeq(toLowerCase(str), IsAlnum)
  IN  clean = reverse(clean)

countUniqueCharacters(str) ==
  LET low == toLowerCase(str)
  IN  Cardinality({low[i] : i \in 1..Len(low)} \ {" ", "\t", "\n"})

countWords(str) ==
  LET t == trim(str)
  IN  IF t = <<>> THEN 0
      ELSE 1 + Cardinality({i \in 1..(Len(t) - 1) :
                              IsWhitespace(t[i]) /\ ~IsWhitespace(t[i + 1])})

characterFrequency(str) ==
  LET low == toLowerCase(str)
  IN  [c \in {low[i] : i \in 1..Len(low)} \ {" "} |->
         Cardinality({i \in 1..Len(low) : low[i] = c})]

\* The digest.  SHA-256 is not computed bit by bit: it is replaced by a
\* polynomial digest of the character codes, rendered, as CryptoJS renders
\* it, in lower-case hexadecimal.  What the handlers rely on is kept: the
\* digest is a function of the raw text alone (no normalisation), and it is
\* free of collisions on the texts that are hashed (HashCollisionFree).
RECURSIVE Digest(_)
Digest(str) ==
  IF str = <<>> THEN 7
  ELSE (Digest(SubSeq(str, 1, Len(str) - 1)) * 131 + CharCode(str[Len(str)])) % 65521

RECURSIVE ToHex(_, _)
ToHex(n, width) ==
  IF width = 0 THEN <<>>
  ELSE ToHex(n \div 16, width - 1) \o <<HexDigits[(n % 16) + 1]>>

createHash(str) == ToHex(Digest(str), 4)

(***************************************************************************)
(* Records, filter specifications and responses.                           *)
(***************************************************************************)
\* the object built by POST /strings
NewString(value, hash, now) ==
  [id         |-> hash,
   value      |-> value,
   properties |-> [length                  |-> Len(value),
                   is_palindrome           |-> isPalindrome(value),
                   unique_characters       |-> countUniqueCharacters(value),
                   word_count              |-> countWords(value),
                   sha256_hash             |-> hash,
                   character_frequency_map |-> characterFrequency(value)],
   created_at |-> now]

\* an object with optional fields: `has` holds the names of the fields that
\* are set, a field that is not set keeps the value given here
NoFilters ==
  [has |-> {}, is_palindrome |-> FALSE, min_length |-> 0, max_length |-> 0,
   word_count |-> 0, contains_character |-> <<>>]

\* res.status(status).json(...): `shape` says which body was sent, "record"
\* (one record, in data), "list" ({data, count, ...}), "error" or "empty"
Response(handler, status, shape, error, data, filters) ==
  [handler |-> handler, status |-> status, shape |-> shape, error |-> error,
   data |-> data, count |-> Len(data), filters |-> filters]

ErrorResponse(handler, status, error) ==
  Response(handler, status, "error", error, <<>>, NoFilters)

\* stringDatabase.findIndex(s => s.id === hash), counted from 1; 0 for -1
FindIndexNever(db, hash) == 0

FindIndex(db, hash) ==
  LET hits == {i \in 1..Len(db) : db[i].id = hash}
  IN  IF hits = {} THEN 0 ELSE CHOOSE i \in hits : \A j \in hits : i <= j

\* stringDatabase.splice(index, 1)
Splice(db, index) == SubSeq(db, 1, index - 1) \o SubSeq(db, index + 1, Len(db))

(***************************************************************************)
(* POST /strings                                                           *)
(***************************************************************************)
\* the part of the handler that the two files share: lines 69-98 of
\* server.js, lines 87-113 of part_000
StoreNewUpsert(db, value, now) ==
  LET hash  == createHash(value)
      index == FindIndex(db, hash)
  IN  IF index # 0
        THEN [db   |-> [db EXCEPT ![index] = NewString(value, hash, now)],
              resp |-> ErrorResponse("post", 409, "String already exists")]
        ELSE [db   |-> Append(db, NewString(value, hash, now)),
              resp |-> Response("post", 201, "record", "", <<NewString(value, hash, now)>>, NoFilters)]

StoreNewFirst(db, value, now) ==
  LET hash == createHash(value)
  IN  IF FindIndex(db, hash) # 0
        THEN [db |-> db, resp |-> ErrorResponse("post", 409, "String already exists")]
        ELSE [db   |-> <<NewString(value, hash, now)>> \o db,
              resp |-> Response("post", 201, "record", "", <<NewString(value, hash, now)>>, NoFilters)]

StoreNew(db, value, now) ==
  LET hash == createHash(value)
  IN  IF FindIndex(db, hash) # 0
        THEN [db |-> db, resp |-> ErrorResponse("post", 409, "String already exists")]
        ELSE [db   |-> Append(db, NewString(value, hash, now)),
              resp |-> Response("post", 201, "record", "", <<NewString(value, hash, now)>>, NoFilters)]

PostStrings_server(db, value, now) ==
  IF Falsy(value)
    THEN [db |-> db, resp |-> ErrorResponse("post", 400, "Missing \"value\" field")]
  ELSE IF value.type # "string"
    THEN [db |-> db, resp |-> ErrorResponse("post", 422, "Value must be a string")]
  ELSE StoreNew(db, value.text, now)

PostStrings_part(db, value, now) ==
  IF value.type = "undefined"
    THEN [db |-> db, resp |-> ErrorResponse("post", 404, "Missing \"value\" field")]
  ELSE IF value.type # "string"
    THEN [db |-> db, resp |-> ErrorResponse("post", 422, "Value must be a string")]
  ELSE StoreNew(db, value.text, now)

(***************************************************************************)
(* GET /strings/:value                                                     *)
(***************************************************************************)
\* the part of the handler that the two files share: lines 108-115 of
\* server.js, lines 126-133 of part_000
SendFound(db, value) ==
  LET index == FindIndex(db, createHash(value))
  IN  IF index = 0
        THEN [db |-> db, resp |-> ErrorResponse("getValue", 404, "String not found")]
        ELSE [db |-> db, resp |-> Response("getValue", 200, "record", "", <<db[index]>>, NoFilters)]

GetValue_server(db, value) == SendFound(db, value)

GetValue_part(db, rawValue) ==
  IF rawValue = <<>>
    THEN [db |-> db, resp |-> ErrorResponse("getValue", 400, "Missing string value in URL")]
    ELSE SendFound(db, rawValue)

(***************************************************************************)
(* DELETE /strings/:value                                                  *)
(***************************************************************************)
DeleteValueFirst(db, value) ==
  IF db = <<>>
    THEN [db |-> db, resp |-> ErrorResponse("delete", 404, "String not found")]
    ELSE [db |-> Tail(db), resp |-> Response("delete", 204, "empty", "", <<>>, NoFilters)]

DeleteValueStale(db, value) ==
  LET hash  == createHash(value)
      index == FindIndex(db, hash)
  IN  IF index = 0
        THEN [db |-> db, resp |-> Response("delete", 204, "empty", "", <<>>, NoFilters)]
        ELSE [db   |-> Splice(db, index),
              resp |-> Response("delete", 204, "empty", "", <<>>, NoFilters)]

DeleteValue(db, value) ==
  LET index == FindIndex(db, createHash(value))
  IN  IF index = 0
        THEN [db |-> db, resp |-> ErrorResponse("delete", 404, "String not found")]
        ELSE [db |-> Splice(db, index), resp |-> Response("delete", 204, "empty", "", <<>>, NoFilters)]

(***************************************************************************)
(* The results.filter(...) calls of the two listing handlers.              *)
(***************************************************************************)
FilterPalindrome(results, isPal) ==
  SelectSeq(results, LAMBDA s : s.properties.is_palindrome = isPal)

FilterMinLengthStrict(results, minLen) ==
  SelectSeq(results, LAMBDA s : s.properties.length > minLen)

FilterMinLength(results, minLen) ==
  SelectSeq(results, LAMBDA s : s.properties.length >= minLen)

FilterMaxLength(results, maxLen) ==
  SelectSeq(results, LAMBDA s : s.properties.length <= maxLen)

FilterWordCount(results, wordCount) ==
  SelectSeq(results, LAMBDA s : s.properties.word_count = wordCount)

FilterContains(results, char) ==
  SelectSeq(results, LAMBDA s : includes(toLowerCase(s.value), char))

(***************************************************************************)
(* GET /strings                                                            *)
(*                                                                         *)
(* q is req.query: the five parameters, each Undefined or a string.        *)
(***************************************************************************)
ListResponse(handler, results, filters) ==
  Response(handler, 200, "list", "", results, filters)

ListStrings_server(db, q) ==
  LET isPal == q.is_palindrome.text = <<"t","r","u","e">>
      on1   == q.is_palindrome.type # "undefined"
      r1    == IF on1 THEN FilterPalindrome(db, isPal) ELSE db
      f1    == IF on1 THEN [NoFilters EXCEPT !.has = {"is_palindrome"}, !.is_palindrome = isPal]
               ELSE NoFilters
      minLen == parseInt(q.min_length.text)
      on2   == ~Falsy(q.min_length) /\ ~isNaN(minLen) /\ minLen.n >= 0
      r2    == IF on2 THEN FilterMinLength(r1, minLen.n) ELSE r1
      f2    == IF on2 THEN [f1 EXCEPT !.has = @ \cup {"min_length"}, !.min_length = minLen.n]
               ELSE f1
      maxLen == parseInt(q.max_length.text)
      on3   == ~Falsy(q.max_length) /\ ~isNaN(maxLen) /\ maxLen.n >= 0
      r3    == IF on3 THEN FilterMaxLength(r2, maxLen.n) ELSE r2
      f3    == IF on3 THEN [f2 EXCEPT !.has = @ \cup {"max_length"}, !.max_length = maxLen.n]
               ELSE f2
      wordCount == parseInt(q.word_count.text)
      on4   == ~Falsy(q.word_count) /\ ~isNaN(wordCount) /\ wordCount.n >= 0
      r4    == IF on4 THEN FilterWordCount(r3, wordCount.n) ELSE r3
      f4    == IF on4 THEN [f3 EXCEPT !.has = @ \cup {"word_count"}, !.word_count = wordCount.n]
               ELSE f3
      char  == trim(toLowerCase(q.contains_character.text))
      on5   == ~Falsy(q.contains_character) /\ Len(char) = 1
      r5    == IF on5 THEN FilterContains(r4, char) ELSE r4
      f5    == IF on5 THEN [f4 EXCEPT !.has = @ \cup {"contains_character"}, !.contains_character = char]
               ELSE f4
  IN  [db |-> db, resp |-> ListResponse("list", r5, f5)]

ListStrings_part(db, q) ==
  LET isPal == q.is_palindrome.text = <<"t","r","u","e">>
      on1   == q.is_palindrome.type # "undefined"
      r1    == IF on1 THEN FilterPalindrome(db, isPal) ELSE db
      f1    == IF on1 THEN [NoFilters EXCEPT !.has = {"is_palindrome"}, !.is_palindrome = isPal]
               ELSE NoFilters
      minLen == parseInt(q.min_length.text)
      on2   == ~Falsy(q.min_length)
      r2    == IF on2 THEN FilterMinLength(r1, minLen.n) ELSE r1
      f2    == IF on2 THEN [f1 EXCEPT !.has = @ \cup {"min_length"}, !.min_length = minLen.n]
               ELSE f1
      maxLen == parseInt(q.max_length.text)
      on3   == ~Falsy(q.max_length)
      r3    == IF on3 THEN FilterMaxLength(r2, maxLen.n) ELSE r2
      f3    == IF on3 THEN [f2 EXCEPT !.has = @ \cup {"max_length"}, !.max_length = maxLen.n]
               ELSE f2
      wordCount == parseInt(q.word_count.text)
      on4   == ~Falsy(q.word_count)
      r4    == IF on4 THEN FilterWordCount(r3, wordCount.n) ELSE r3
      f4    == IF on4 THEN [f3 EXCEPT !.has = @ \cup {"word_count"}, !.word_count = wordCount.n]
               ELSE f3
      char  == trim(toLowerCase(q.contains_character.text))
      on5   == ~Falsy(q.contains_character)
      r5    == IF on5 THEN FilterContains(r4, char) ELSE r4
      f5    == IF on5 THEN [f4 EXCEPT !.has = @ \cup {"contains_character"}, !.contains_character = char]
               ELSE f4
  IN  IF on1 /\ q.is_palindrome.text # <<"t","r","u","e">> /\ q.is_palindrome.text # <<"f","a","l","s","e">>
        THEN [db |-> db, resp |-> ErrorResponse("list", 400, "is_palindrome must be true or false")]
      ELSE IF on2 /\ isNaN(minLen)
        THEN [db |-> db, resp |-> ErrorResponse("list", 400, "min_length must be a number")]
      ELSE IF on3 /\ isNaN(maxLen)
        THEN [db |-> db, resp |-> ErrorResponse("list", 400, "max_length must be a number")]
      ELSE IF on4 /\ isNaN(wordCount)
        THEN [db |-> db, resp |-> ErrorResponse("list", 400, "word_count must be a number")]
      ELSE IF on5 /\ Len(char) # 1
        THEN [db |-> db, resp |-> ErrorResponse("list", 400, "contains_character must be a single character")]
      ELSE [db |-> db, resp |-> ListResponse("list", r5, f5)]

(***************************************************************************)
(* GET /strings/filter-by-natural-language                                 *)
(***************************************************************************)
\* the conditions of the if / else-if chain, on the lower-cased query
Rule1(lower) == includes(lower, <<"s","i","n","g","l","e"," ","w","o","r","d">>) /\ includes(lower, <<"p","a","l","i","n","d","r","o","m","i","c">>)

Rule2(lower) == includes(lower, <<"l","o","n","g","e","r"," ","t","h","a","n">>) /\ MatchDigits(lower) # <<>>

Rule3_server(lower) ==
  /\ includes(lower, <<"c","o","n","t","a","i","n","i","n","g">>)
  /\ includes(lower, <<"l","e","t","t","e","r">>)
  /\ MatchLowerLetter(lower) # <<>>

Rule3_part(lower) ==
  includes(lower, <<"c","o","n","t","a","i","n","i","n","g"," ","t","h","e"," ","l","e","t","t","e","r">>) /\ MatchLowerLetter(lower) # <<>>

Rule4(lower) == includes(lower, <<"p","a","l","i","n","d","r","o","m","i","c">>)

\* the object each branch assigns to parsedFilters
Filters1 ==
  [NoFilters EXCEPT !.has = {"word_count", "is_palindrome"},
                    !.word_count = 1, !.is_palindrome = TRUE]

Filters2(lower) ==
  [NoFilters EXCEPT !.has = {"min_length"},
                    !.min_length = DecimalValue(MatchDigits(lower)) + 1]

Filters3(lower) ==
  [NoFilters EXCEPT !.has = {"contains_character"},
                    !.contains_character = MatchLowerLetter(lower)]

Filters4 ==
  [NoFilters EXCEPT !.has = {"is_palindrome"}, !.is_palindrome = TRUE]

Unparsed == [matched |-> FALSE, filters |-> NoFilters]

Classify_serverPalindromicFirst(lower) ==
  IF Rule1(lower) THEN [matched |-> TRUE, filters |-> Filters1]
  ELSE IF Rule4(lower) THEN [matched |-> TRUE, filters |-> Filters4]
  ELSE IF Rule2(lower) THEN [matched |-> TRUE, filters |-> Filters2(lower)]
  ELSE IF Rule3_server(lower) THEN [matched |-> TRUE, filters |-> Filters3(lower)]
  ELSE Unparsed

Classify_server(lower) ==
  IF Rule1(lower) THEN [matched |-> TRUE, filters |-> Filters1]
  ELSE IF Rule2(lower) THEN [matched |-> TRUE, filters |-> Filters2(lower)]
  ELSE IF Rule3_server(lower) THEN [matched |-> TRUE, filters |-> Filters3(lower)]
  ELSE IF Rule4(lower) THEN [matched |-> TRUE, filters |-> Filters4]
  ELSE IF Rule2(lower) THEN [matched |-> TRUE, filters |-> Filters2(lower)]
  ELSE Unparsed

Classify_part(lower) ==
  IF Rule1(lower) THEN [matched |-> TRUE, filters |-> Filters1]
  ELSE IF Rule2(lower) THEN [matched |-> TRUE, filters |-> Filters2(lower)]
  ELSE IF Rule3_part(lower) THEN [matched |-> TRUE, filters |-> Filters3(lower)]
  ELSE IF Rule4(lower) THEN [matched |-> TRUE, filters |-> Filters4]
  ELSE Unparsed

\* "APPLY FILTERS": a field narrows the results when it is set and, for all
\* but is_palindrome, truthy
ApplyParsedFilters(db, pf) ==
  LET r1 == IF "is_palindrome" \in pf.has
              THEN FilterPalindrome(db, pf.is_palindrome) ELSE db
      r2 == IF "min_length" \in pf.has /\ pf.min_length # 0
              THEN FilterMinLength(r1, pf.min_length) ELSE r1
      r3 == IF "word_count" \in pf.has /\ pf.word_count # 0
              THEN FilterWordCount(r2, pf.word_count) ELSE r2
      r4 == IF "contains_character" \in pf.has /\ pf.contains_character # <<>>
              THEN FilterContains(r3, pf.contains_character) ELSE r3
  IN  r4

\* queryParam is req.query.query
DecodeQuery(queryParam) ==
  decodeURIComponent(IF Falsy(queryParam) THEN <<>> ELSE queryParam.text)

\* the handler once the query is decoded and the file's if / else-if chain
\* has been through it (parsed); a throw of decodeURIComponent is caught
AnswerQuery(db, decoded, parsed) ==
  IF decoded.throws
    THEN [db |-> db, resp |-> ErrorResponse("nl", 400, "Unable to parse natural language query")]
  ELSE IF decoded.s = <<>> \/ trim(decoded.s) = <<>>
    THEN [db |-> db, resp |-> ErrorResponse("nl", 400, "Missing query parameter")]
  ELSE IF ~parsed.matched
    THEN [db |-> db, resp |-> ErrorResponse("nl", 400, "Unable to parse natural language query")]
  ELSE [db |-> db, resp |-> ListResponse("nl", ApplyParsedFilters(db, parsed.filters), parsed.filters)]

NaturalLanguage_server(db, queryParam) ==
  AnswerQuery(db, DecodeQuery(queryParam),
              Classify_server(toLowerCase(DecodeQuery(queryParam).s)))

NaturalLanguage_part(db, queryParam) ==
  AnswerQuery(db, DecodeQuery(queryParam),
              Classify_part(toLowerCase(DecodeQuery(queryParam).s)))

(***************************************************************************)
(* Routing.  Express tries the routes in the order of their registration   *)
(* and the first one whose method and path match handles the request (no   *)
(* handler calls next()).  Both files register the routes in this order.   *)
(*                                                                         *)
(* A request path is /strings followed by `segs`, the path segments after  *)
(* it: <<>> for /strings, <<x>> for /strings/x (and << <<>> >> for         *)
(* /strings/ with nothing after the slash).                                *)
(***************************************************************************)
Routes ==
  << [method |-> "POST",   path |-> "/strings",                            handler |-> "post"],
     [method |-> "GET",    path |-> "/strings/:value",                     handler |-> "getValue"],
     [method |-> "GET",    path |-> "/strings",                            handler |-> "list"],
     [method |-> "GET",    path |-> "/strings/filter-by-natural-language", handler |-> "nl"],
     [method |-> "DELETE", path |-> "/strings/:value",                     handler |-> "delete"] >>

NaturalLanguageSegment == <<"f","i","l","t","e","r","-","b","y","-","n","a","t","u","r","a","l","-","l","a","n","g","u","a","g","e">>

\* a trailing slash is optional, a parameter takes one non-empty segment,
\* a literal segment is compared without regard to case
PathMatches(path, segs) ==
  CASE path = "/strings"        -> segs = <<>> \/ segs = << <<>> >>
    [] path = "/strings/:value" -> Len(segs) = 1 /\ segs[1] # <<>>
    [] OTHER                    -> Len(segs) = 1 /\ toLowerCase(segs[1]) = NaturalLanguageSegment

\* the handler of the first matching route, "none" when no route matches
Dispatch(method, segs) ==
  LET hits == {i \in 1..Len(Routes) :
                 Routes[i].method = method /\ PathMatches(Routes[i].path, segs)}
  IN  IF hits = {} THEN "none"
      ELSE Routes[CHOOSE i \in hits : \A j \in hits : i <= j].handler

NoQuery ==
  [is_palindrome |-> Undefined, min_length |-> Undefined, max_length |-> Undefined,
   word_count |-> Undefined, contains_character |-> Undefined, query |-> Undefined]

Request(op, method, segs, query, body) ==
  [op |-> op, method |-> method, segs |-> segs, query |-> query, body |-> body]

\* what handler h of file f does with request r: the new stringDatabase and
\* the response
Handle(f, h, db, now, r) ==
  CASE h = "post" ->
         IF f = "server.js" THEN PostStrings_server(db, r.body, now)
                            ELSE PostStrings_part(db, r.body, now)
    [] h = "getValue" ->
         IF f = "server.js" THEN GetValue_server(db, r.segs[1])
                            ELSE GetValue_part(db, r.segs[1])
    [] h = "list" ->
         IF f = "server.js" THEN ListStrings_server(db, r.query)
                            ELSE ListStrings_part(db, r.query)
    [] h = "nl" ->
         IF f = "server.js" THEN NaturalLanguage_server(db, r.query.query)
                            ELSE NaturalLanguage_part(db, r.query.query)
    [] h = "delete" -> DeleteValue(db, r.segs[1])
    [] OTHER -> [db |-> db, resp |-> ErrorResponse("none", 404, "Not Found")]

(***************************************************************************)
(* The requests of the model.                                              *)
(***************************************************************************)
Texts ==
  { <<>>, <<"a","b">>, <<"a","b","c","d">>, <<"r","a","c","e","c","a","r">>, <<"r","a","c","e"," ","c","a","r">>, NaturalLanguageSegment }

\* values of the body field `value`: absent, of each JSON type, or a text
BodyValues ==
  {Undefined, Null, Object, Num(0), Num(5), Bool(FALSE)} \cup {Str(t) : t \in Texts}

\* GET /strings with every combination of these parameter values ...
ListQueries ==
  { [NoQuery EXCEPT !.is_palindrome = p, !.min_length = mn, !.max_length = mx,
                    !.word_count = wc, !.contains_character = cc] :
      p  \in {Undefined, Str(<<"t","r","u","e">>), Str(<<"m","a","y","b","e">>)},
      mn \in {Undefined, Str(<<"4">>)},
      mx \in {Undefined, Str(<<"7">>)},
      wc \in {Undefined, Str(<<"1">>)},
      cc \in {Undefined, Str(<<"A">>)} }

\* ... and with one parameter of a less usual form
OddListQueries ==
  {[NoQuery EXCEPT !.is_palindrome = Str(v)] : v \in {<<>>, <<"T","R","U","E">>, <<"f","a","l","s","e">>}}
  \cup {[NoQuery EXCEPT !.min_length = Str(v)] : v \in {<<>>, <<"a","b","c">>, <<"5","x">>, <<"-","1">>, <<" ","2">>, <<"0">>}}
  \cup {[NoQuery EXCEPT !.max_length = Str(v)] : v \in {<<"x">>, <<"0">>, <<"2">>}}
  \cup {[NoQuery EXCEPT !.word_count = Str(v)] : v \in {<<"t","w","o">>, <<"0">>, <<"2">>}}
  \cup {[NoQuery EXCEPT !.contains_character = Str(v)] : v \in {<<>>, <<" ">>, <<" ","c"," ">>, <<"a","b">>}}

\* values of the parameter `query` of the natural-language route
QueryValues ==
  { Undefined, Str(<<>>), Str(<<" "," ">>),
    Str(<<"a","l","l"," ","s","i","n","g","l","e"," ","w","o","r","d"," ","p","a","l","i","n","d","r","o","m","i","c"," ","s","t","r","i","n","g","s">>),
    Str(<<"s","t","r","i","n","g","s"," ","l","o","n","g","e","r"," ","t","h","a","n"," ","3"," ","c","h","a","r","a","c","t","e","r","s">>),
    Str(<<"S","t","r","i","n","g","s"," ","L","O","N","G","E","R"," ","T","H","A","N"," ","3">>),
    Str(<<"p","a","l","i","n","d","r","o","m","i","c"," ","s","t","r","i","n","g","s"," ","l","o","n","g","e","r"," ","t","h","a","n"," ","5">>),
    Str(<<"1"," ","s","t","r","i","n","g"," ","l","o","n","g","e","r"," ","t","h","a","n"," ","5">>),
    Str(<<"s","t","r","i","n","g","s"," ","l","o","n","g","e","r"," ","t","h","a","n"," ","t","e","n">>),
    Str(<<"s","t","r","i","n","g","s"," ","c","o","n","t","a","i","n","i","n","g"," ","t","h","e"," ","l","e","t","t","e","r"," ","z">>),
    Str(<<"s","t","r","i","n","g","s"," ","c","o","n","t","a","i","n","i","n","g"," ","a","n","y"," ","l","e","t","t","e","r">>),
    Str(<<"s","t","r","i","n","g","s"," ","c","o","n","t","a","i","n","i","n","g"," ","t","h","e"," ","l","e","t","t","e","r"," ","z"," ","l","o","n","g","e","r"," ","t","h","a","n"," ","1">>),
    Str(<<"p","a","l","i","n","d","r","o","m","i","c"," ","s","t","r","i","n","g","s"," ","c","o","n","t","a","i","n","i","n","g"," ","t","h","e"," ","l","e","t","t","e","r"," ","a">>),
    Str(<<"s","i","n","g","l","e"," ","w","o","r","d"," ","p","a","l","i","n","d","r","o","m","i","c"," ","s","t","r","i","n","g","s"," ","c","o","n","t","a","i","n","i","n","g"," ","t","h","e"," ","l","e","t","t","e","r"," ","a"," ","l","o","n","g","e","r"," ","t","h","a","n"," ","2">>),
    Str(<<"p","a","l","i","n","d","r","o","m","i","c"," ","s","t","r","i","n","g","s">>),
    Str(<<"p","a","l","i","n","d","r","o","m","i","c","%","2","0","s","t","r","i","n","g","s">>),
    Str(<<"1","0","0","%"," ","p","a","l","i","n","d","r","o","m","i","c">>),
    Str(<<"s","h","o","w"," ","m","e"," ","s","o","m","e","t","h","i","n","g"," ","w","e","i","r","d">>) }

NaturalLanguageQueries == {[NoQuery EXCEPT !.query = v] : v \in QueryValues}

(***************************************************************************)
(* State.                                                                  *)
(***************************************************************************)
VARIABLES
  file,            \* which of the two files is running
  stringDatabase,  \* the in-memory array of records
  clock,           \* what new Date() returns
  req,             \* the last request received
  resp,            \* the response sent to it
  hist,            \* for each text, its last successful mutation, if any
  order,           \* the texts of the successful Creates not undone by a
                   \* Delete, oldest first
  before,          \* what hist said of the text of the last request when
                   \* the request arrived
  waiting,         \* for each client, the request it has sent and has not
                   \* yet had the answer to, if any
  answered         \* for each client, the answer written to its request

vars == <<file, stringDatabase, clock, req, resp, hist, order, before, waiting, answered>>

Files == {"server.js", "part_000"}

\* connections that have a request in the server at the same time
Clients == {"c1", "c2"}

NoRequest == Request("none", "GET", <<>>, NoQuery, Undefined)

NoResponse == Response("none", 0, "empty", "", <<>>, NoFilters)

Init ==
  /\ file \in Files
  /\ stringDatabase = <<>>
  /\ clock = 0
  /\ req = NoRequest
  /\ resp = NoResponse
  /\ hist = [t \in Texts |-> "none"]
  /\ order = <<>>
  /\ before = "none"
  /\ waiting = [c \in Clients |-> NoRequest]
  /\ answered = [c \in Clients |-> NoResponse]

\* Handlers are synchronous and Node runs one callback at a time: a request
\* is received, handled and answered before the next one is looked at.
Idle == req.op = "none"

\* handler h runs on a request from its first statement to the one that
\* sends the response: the handlers are synchronous, nothing else runs in
\* between
Serve(op, method, segs, query, body, h) ==
  /\ Idle
  /\ \E r \in {Request(op, method, segs, query, body)} :
     \E out \in {Handle(file, h, stringDatabase, clock, r)} :
       /\ Len(out.db) <= MaxStore
       /\ stringDatabase' = out.db
       /\ resp' = out.resp
       /\ req' = r
       /\ clock' = IF out.resp.status = 201 /\ clock < MaxClock THEN clock + 1 ELSE clock
       /\ hist' = IF out.resp.handler = "post" /\ out.resp.status = 201
                    THEN [hist EXCEPT ![body.text] = "created"]
                  ELSE IF out.resp.handler = "delete" /\ out.resp.status = 204
                    THEN [hist EXCEPT ![segs[1]] = "deleted"]
                  ELSE hist
       /\ order' = IF out.resp.handler = "post" /\ out.resp.status = 201
                     THEN Append(order, body.text)
                   ELSE IF out.resp.handler = "delete" /\ out.resp.status = 204
                     THEN SelectSeq(order, LAMBDA t : t # segs[1])
                   ELSE order
       /\ before' = IF body.type = "string" THEN hist[body.text]
                    ELSE IF segs # <<>> THEN hist[segs[1]]
                    ELSE "none"
       /\ UNCHANGED file

\* the server receives a request, handler h runs and answers it
Receive(op, method, segs, query, body, h) ==
  /\ Serve(op, method, segs, query, body, h)
  /\ UNCHANGED <<waiting, answered>>

\* the router picks the handler
Send(op, method, segs, query, body) ==
  Receive(op, method, segs, query, body, Dispatch(method, segs))

\* POST /strings with a JSON body
Create ==
  \E v \in BodyValues : Send("Create", "POST", <<>>, NoQuery, v)

\* GET /strings/<x>
FetchOne ==
  \E x \in Texts : Send("FetchOne", "GET", <<x>>, NoQuery, Undefined)

\* GET /strings?...
List ==
  \E q \in ListQueries \cup OddListQueries :
    Send("List", "GET", <<>>, q, Undefined)

\* GET /strings/filter-by-natural-language?query=...
NaturalLanguageList ==
  \E q \in NaturalLanguageQueries :
    Send("NaturalLanguageList", "GET", <<NaturalLanguageSegment>>, q, Undefined)

\* DELETE /strings/<x>
Delete ==
  \E x \in Texts : Send("Delete", "DELETE", <<x>>, NoQuery, Undefined)

\* the response has gone out; the server waits for the next request
Complete ==
  /\ ~Idle
  /\ req' = NoRequest
  /\ resp' = NoResponse
  /\ before' = "none"
  /\ UNCHANGED <<file, stringDatabase, clock, hist, order, waiting, answered>>

Next == Create \/ FetchOne \/ List \/ NaturalLanguageList \/ Delete \/ Complete

Spec == Init /\ [][Next]_vars

(***************************************************************************)
(* The natural-language handler on its own: the handler function is        *)
(* applied to the request, whatever the router does with its path.         *)
(***************************************************************************)
CallNaturalLanguage ==
  \E q \in NaturalLanguageQueries :
    Receive("NaturalLanguageList", "GET", <<NaturalLanguageSegment>>, q, Undefined, "nl")

NextHandler == Create \/ Delete \/ CallNaturalLanguage \/ Complete

SpecHandler == Init /\ [][NextHandler]_vars

(***************************************************************************)
(* Several clients at once.  Each client sends a request and waits for the *)
(* answer; the requests that have arrived wait for the event loop, which   *)
(* runs one handler at a time, each to its end, in any order.              *)
(***************************************************************************)
ConcurrentTexts == {<<"a","b">>, <<"r","a","c","e","c","a","r">>}

ConcurrentRequests ==
  {Request("Create", "POST", <<>>, NoQuery, Str(t)) : t \in ConcurrentTexts}
  \cup {Request("FetchOne", "GET", <<t>>, NoQuery, Undefined) : t \in ConcurrentTexts}
  \cup {Request("Delete", "DELETE", <<t>>, NoQuery, Undefined) : t \in ConcurrentTexts}
  \cup {Request("List", "GET", <<>>, NoQuery, Undefined)}

\* the request of client c reaches the server
Arrive(c) ==
  /\ waiting[c] = NoRequest
  /\ \E r \in ConcurrentRequests : waiting' = [waiting EXCEPT ![c] = r]
  /\ UNCHANGED <<file, stringDatabase, clock, req, resp, hist, order, before, answered>>

\* the event loop runs the handler of the request of client c
Run(c) ==
  /\ waiting[c] # NoRequest
  /\ answered[c] = NoResponse
  /\ Serve(waiting[c].op, waiting[c].method, waiting[c].segs, waiting[c].query,
           waiting[c].body, Dispatch(waiting[c].method, waiting[c].segs))
  /\ answered' = [answered EXCEPT ![c] = resp']
  /\ UNCHANGED waiting

\* client c has read its answer
Depart(c) ==
  /\ answered[c] # NoResponse
  /\ waiting' = [waiting EXCEPT ![c] = NoRequest]
  /\ answered' = [answered EXCEPT ![c] = NoResponse]
  /\ UNCHANGED <<file, stringDatabase, clock, req, resp, hist, order, before>>

NextConcurrent ==
  \/ \E c \in Clients : Arrive(c)
  \/ \E c \in Clients : Run(c)
  \/ \E c \in Clients : Depart(c)
  \/ Complete

SpecConcurrent == Init /\ [][NextConcurrent]_vars

TypeOK ==
  /\ file \in Files
  /\ clock \in 0..MaxClock
  /\ Len(stringDatabase) <= MaxStore
  /\ resp.status \in {0, 200, 201, 204, 400, 404, 409, 422}

(***************************************************************************)
(* Vocabulary of the properties.                                           *)
(***************************************************************************)
\* the digest separates the texts of the model
HashCollisionFree ==
  \A x \in Texts : \A y \in Texts : x # y => createHash(x) # createHash(y)

\* analyze(x): the properties of text x
Analyze(x) == NewString(x, createHash(x), 0).properties

\* the values of a sequence of records, in its order
Values(recs) == [i \in 1..Len(recs) |-> recs[i].value]

\* a record as POST /strings builds it, with every property computed
IsWhole(rec) == rec = NewString(rec.value, createHash(rec.value), rec.created_at)

\* the handler of the request of client c runs in this step
Ran(c) == answered[c] = NoResponse /\ answered'[c] # NoResponse

HasDigest(db, x) == \E i \in 1..Len(db) : db[i].id = createHash(x)

Supplied(v) == v.type # "undefined"

IsDecimal(text) == text # <<>> /\ \A i \in 1..Len(text) : IsDigit(text[i])

\* every supplied filter passes the validation of the filter evaluator
ValidFilters(q) ==
  /\ Supplied(q.is_palindrome) => q.is_palindrome.text \in {<<"t","r","u","e">>, <<"f","a","l","s","e">>}
  /\ Supplied(q.min_length) => IsDecimal(q.min_length.text)
  /\ Supplied(q.max_length) => IsDecimal(q.max_length.text)
  /\ Supplied(q.word_count) => IsDecimal(q.word_count.text)
  /\ Supplied(q.contains_character) => Len(trim(toLowerCase(q.contains_character.text))) = 1

\* record rec passes every supplied filter of q
SatisfiesAll(rec, q) ==
  /\ Supplied(q.is_palindrome) =>
       rec.properties.is_palindrome = (q.is_palindrome.text = <<"t","r","u","e">>)
  /\ Supplied(q.min_length) => rec.properties.length >= DecimalValue(q.min_length.text)
  /\ Supplied(q.max_length) => rec.properties.length <= DecimalValue(q.max_length.text)
  /\ Supplied(q.word_count) => rec.properties.word_count = DecimalValue(q.word_count.text)
  /\ Supplied(q.contains_character) =>
       \E i \in 1..Len(rec.value) :
         <<ToLowerChar(rec.value[i])>> = trim(toLowerCase(q.contains_character.text))

\* the text of the natural-language query of the last request, decoded
DecodedQuery == DecodeQuery(req.query.query)

LowerQuery == toLowerCase(DecodedQuery.s)

QueryPresent == ~DecodedQuery.throws /\ trim(DecodedQuery.s) # <<>>

RuleHolds(i, lower) ==
  CASE i = 1 -> Rule1(lower)
    [] i = 2 -> Rule2(lower)
    [] i = 3 -> IF file = "server.js" THEN Rule3_server(lower) ELSE Rule3_part(lower)
    [] i = 4 -> Rule4(lower)

MatchingRules(lower) == {i \in 1..4 : RuleHolds(i, lower)}

FirstRule(lower) ==
  CHOOSE i \in MatchingRules(lower) : \A j \in MatchingRules(lower) : i <= j

RuleFields(i) ==
  CASE i = 1 -> {"word_count", "is_palindrome"}
    [] i = 2 -> {"min_length"}
    [] i = 3 -> {"contains_character"}
    [] i = 4 -> {"is_palindrome"}

RuleFilters(i, lower) ==
  CASE i = 1 -> Filters1
    [] i = 2 -> Filters2(lower)
    [] i = 3 -> Filters3(lower)
    [] i = 4 -> Filters4

\* record rec passes the parsed filters pf
SatisfiesParsed(rec, pf) ==
  /\ "is_palindrome" \in pf.has => rec.properties.is_palindrome = pf.is_palindrome
  /\ "min_length" \in pf.has => rec.properties.length >= pf.min_length
  /\ "word_count" \in pf.has => rec.properties.word_count = pf.word_count
  /\ "contains_character" \in pf.has => includes(toLowerCase(rec.value), pf.contains_character)

\* the digits that follow the first "longer than" of the query, <<>> if none
NumberAfterLongerThan(lower) ==
  LET phrase == <<"l","o","n","g","e","r"," ","t","h","a","n">>
      at == {i \in 1..(Len(lower) - Len(phrase) + 1) :
               SubSeq(lower, i, i + Len(phrase) - 1) = phrase}
  IN  IF at = {} THEN <<>>
      ELSE LET first == CHOOSE i \in at : \A j \in at : i <= j
           IN  MatchDigits(SubSeq(lower, first + Len(phrase), Len(lower)))

(***************************************************************************)
(* Properties.                                                             *)
(***************************************************************************)
\* C1: in every state reached by Create and Delete requests no two records
\* of the store have the same id, and the id of every record, like its
\* properties.sha256_hash, is the digest of the record's own value.
C1_UniqueContentIds ==
  /\ \A i \in 1..Len(stringDatabase) : \A j \in 1..Len(stringDatabase) :
       i # j => stringDatabase[i].id # stringDatabase[j].id
  /\ \A i \in 1..Len(stringDatabase) :
       /\ stringDatabase[i].id = createHash(stringDatabase[i].value)
       /\ stringDatabase[i].properties.sha256_hash = createHash(stringDatabase[i].value)

\* two records are stored, one text has been deleted, and a Create of a
\* stored text has just been refused
C1_Witness ==
  /\ Len(stringDatabase) >= 2
  /\ \E t \in Texts : hist[t] = "deleted"
  /\ req.op = "Create" /\ resp.status = 409

\* C2: a Create whose text has a digest already in the store is answered 409
\* and leaves the store as it was: the same records in the same order, the
\* created_at of the existing record included.
C2_ConflictLeavesStore ==
  [][ (req'.op = "Create" /\ req'.body.type = "string"
         /\ HasDigest(stringDatabase, req'.body.text))
      => (resp'.status = 409 /\ stringDatabase' = stringDatabase) ]_vars

\* a Create of a stored text was refused at a time later than the creation
\* of the stored record
C2_Witness ==
  /\ req.op = "Create" /\ resp.status = 409
  /\ \E i \in 1..Len(stringDatabase) :
       /\ stringDatabase[i].value = req.body.text
       /\ stringDatabase[i].created_at < clock

\* C3: once Create(x) has succeeded and until a Delete(x) succeeds,
\* Fetch-one(x) is answered 200 with the record of x: its value is x and its
\* properties are analyze(x).
C3_RoundTrip ==
  (req.op = "FetchOne" /\ hist[req.segs[1]] = "created")
  => /\ resp.status = 200
     /\ resp.shape = "record"
     /\ resp.data[1].value = req.segs[1]
     /\ resp.data[1].properties = Analyze(req.segs[1])

\* C4: once Delete(x) has succeeded and until x is created again,
\* Fetch-one(x) is answered 404 and Delete(x) is answered 404 and changes
\* nothing; a Delete(x) answered 204 removes the record whose id is the
\* digest of x, that record only, and leaves the others as they were.
C4_DeleteRemovesOne ==
  [][ /\ (req'.op = "FetchOne" /\ hist'[req'.segs[1]] = "deleted")
           => resp'.status = 404
      /\ (req'.op = "Delete" /\ hist[req'.segs[1]] = "deleted")
           => (resp'.status = 404 /\ stringDatabase' = stringDatabase)
      /\ (req'.op = "Delete" /\ resp'.status = 204)
           => /\ HasDigest(stringDatabase, req'.segs[1])
              /\ ~HasDigest(stringDatabase', req'.segs[1])
              /\ Len(stringDatabase') = Len(stringDatabase) - 1
              /\ stringDatabase' =
                   SelectSeq(stringDatabase, LAMBDA s : s.id # createHash(req'.segs[1])) ]_vars

\* a second Delete of a deleted text was refused while another record,
\* stored before the deleted one, is still there
C4_Witness ==
  /\ req.op = "Delete" /\ resp.status = 404
  /\ hist[req.segs[1]] = "deleted"
  /\ stringDatabase # <<>>
  /\ stringDatabase[1].created_at = 0 /\ clock > 0

\* C5: when every supplied filter of a List request is valid, the data of
\* the answer are the stored records that pass all the supplied filters at
\* once, in the order of the store, and count is their number.
C5_ListIsConjunction ==
  (req.op = "List" /\ ValidFilters(req.query))
  => /\ resp.status = 200
     /\ resp.shape = "list"
     /\ resp.data = SelectSeq(stringDatabase, LAMBDA s : SatisfiesAll(s, req.query))
     /\ resp.count = Len(resp.data)

\* a List with the five filters supplied kept some records and dropped some
C5_Witness ==
  /\ req.op = "List" /\ ValidFilters(req.query)
  /\ Supplied(req.query.is_palindrome) /\ Supplied(req.query.min_length)
  /\ Supplied(req.query.max_length) /\ Supplied(req.query.word_count)
  /\ Supplied(req.query.contains_character)
  /\ resp.data # <<>>
  /\ Len(resp.data) < Len(stringDatabase)

\* C6: a List request one of whose supplied filters fails validation is
\* answered 400 and returns no record.
C6_InvalidFilterRejected ==
  (req.op = "List" /\ ~ValidFilters(req.query))
  => (resp.status = 400 /\ resp.data = <<>>)

\* C7: a GET of /strings/filter-by-natural-language whose query matches a
\* rule of the classifier is handled by the natural-language handler and
\* answered 200 with the stored records that pass the parsed filters.
C7_NaturalLanguageAnswered ==
  (req.op = "NaturalLanguageList" /\ QueryPresent /\ MatchingRules(LowerQuery) # {})
  => /\ resp.handler = "nl"
     /\ resp.status = 200
     /\ resp.data = SelectSeq(stringDatabase,
                      LAMBDA s : SatisfiesParsed(s, RuleFilters(FirstRule(LowerQuery), LowerQuery)))

\* C8: a natural-language list request whose query is missing, empty or
\* matched by no rule is answered 400 with the missing-query or the
\* unable-to-parse error, and with no record.
C8_UnparsedQueryRejected ==
  (req.op = "NaturalLanguageList" /\ (~QueryPresent \/ MatchingRules(LowerQuery) = {}))
  => /\ resp.status = 400
     /\ resp.error \in {"Missing query parameter", "Unable to parse natural language query"}
     /\ resp.data = <<>>

\* C9: the classifier tries its rules in the order 1, 2, 3, 4 and the parsed
\* filters are those of the first rule that matches, with no field of a
\* later rule; "palindromic strings longer than 5" gives {min_length: 6}.
C9_FirstRuleWins ==
  (req.op = "NaturalLanguageList" /\ resp.handler = "nl" /\ QueryPresent
     /\ MatchingRules(LowerQuery) # {})
  => /\ resp.status = 200
     /\ resp.filters = RuleFilters(FirstRule(LowerQuery), LowerQuery)
     /\ resp.filters.has = RuleFields(FirstRule(LowerQuery))
     /\ DecodedQuery.s = <<"p","a","l","i","n","d","r","o","m","i","c"," ","s","t","r","i","n","g","s"," ","l","o","n","g","e","r"," ","t","h","a","n"," ","5">>
          => (resp.filters.has = {"min_length"} /\ resp.filters.min_length = 6)

\* the handler classified a query that rules 1, 2, 3 and 4 all match
C9_Witness ==
  /\ req.op = "NaturalLanguageList" /\ resp.handler = "nl" /\ resp.status = 200
  /\ QueryPresent
  /\ MatchingRules(LowerQuery) = 1..4
  /\ stringDatabase # <<>>

\* C10: rule 2 applies only to a query in which "longer than" is followed by
\* a decimal number N; its filter is {min_length: N + 1} for that N, and the
\* answer holds the stored records whose length is greater than N.
C10_LongerThanNumber ==
  (req.op = "NaturalLanguageList" /\ resp.handler = "nl" /\ resp.status = 200
     /\ resp.filters.has = {"min_length"})
  => /\ NumberAfterLongerThan(LowerQuery) # <<>>
     /\ resp.filters.min_length = DecimalValue(NumberAfterLongerThan(LowerQuery)) + 1
     /\ resp.data = SelectSeq(stringDatabase,
                      LAMBDA s : s.properties.length > DecimalValue(NumberAfterLongerThan(LowerQuery)))

\* C11: a Create whose body has no field `value` is answered 400, and one
\* whose field `value` is present but is not a text (a number, a boolean,
\* null, an object) is answered 422; in both cases the store is left as it
\* was.
C11_BadBodyRejected ==
  [][ /\ (req'.op = "Create" /\ req'.body.type = "undefined")
           => (resp'.status = 400 /\ stringDatabase' = stringDatabase)
      /\ (req'.op = "Create" /\ req'.body.type \in {"number", "boolean", "null", "object"})
           => (resp'.status = 422 /\ stringDatabase' = stringDatabase) ]_vars

C14_EmptyTextAccepted ==
  [][ (Idle /\ req'.op = "Create" /\ req'.body = Str(<<>>)
         /\ ~HasDigest(stringDatabase, <<>>))
      => /\ resp'.status = 201
         /\ \E i \in 1..Len(stringDatabase') :
              /\ stringDatabase'[i].value = <<>>
              /\ stringDatabase'[i].properties.length = 0
              /\ stringDatabase'[i].properties.is_palindrome
              /\ stringDatabase'[i].properties.word_count = 0
              /\ stringDatabase'[i].properties.unique_characters = 0
              /\ DOMAIN stringDatabase'[i].properties.character_frequency_map = {} ]_vars

====
